---- MODULE Spec2Model ----
(***************************************************************************)
(* Model of src/app.py: a Flask application with three routes ("/",        *)
(* "/error", "/health") whose root logger writes to the file app.log.      *)
(*                                                                         *)
(* State: the content of app.log, whether and how the process is running   *)
(* (as a script, line 24-25, under Flask's built-in server; or imported by *)
(* a host that calls the application), the last response, and the history *)
(* of the requests handled (kept to state the properties).                 *)
(***************************************************************************)
EXTENDS Integers, Sequences, FiniteSets, TLC

\* Bounds of the model.
MaxRequests == 4
MaxStarts == 2

VARIABLES
    log,        \* the lines of app.log, oldest first
    running,    \* "stopped", "main" (python app.py) or "imported" (WSGI host, test client)
    resp,       \* the last response sent, NoResponse before the first one
    trace,      \* history: one record per request handled, in the order handled
    starts      \* number of times the process was started

vars == <<log, running, resp, trace, starts>>

Paths == {"/", "/error", "/health"}

----------------------------------------------------------------------------
(* logging *)

\* Numeric values of the logging levels (logging.INFO is named on line 8).
LevelNo == [DEBUG |-> 10, INFO |-> 20, WARNING |-> 30, ERROR |-> 40]

\* logging.basicConfig(..., level=logging.INFO): the threshold of the root
\* logger, which app.logger and the server's logger inherit.
RootLevel == "INFO"

\* A line of app.log: the record's level, the logger's name, the message
\* and the message's arguments.
LogRecord(name, level, msg, args) ==
    [logger |-> name, level |-> level, msg |-> msg, args |-> args]

\* logger.<level>(msg, *args) on a logger that propagates to the root
\* handler: the record is written when its level reaches the threshold.
LoggerCall(file, name, level, msg, args) ==
    IF LevelNo[level] >= LevelNo[RootLevel]
    THEN Append(file, LogRecord(name, level, msg, args))
    ELSE file

\* Mutant: the handler opens app.log for writing, truncating it.
basicConfig_truncate(file) == << >>

\* logging.basicConfig(filename='app.log', ...): the root handler opens the
\* file for appending, so what the file holds is kept.
basicConfig(file) == file

----------------------------------------------------------------------------
(* responses *)

Tok(t, v) == [t |-> t, v |-> v]

\* The keys of a dict in the order they are written out.
RECURSIVE KeySeq(_)
KeySeq(keys) ==
    IF keys = {} THEN << >>
    ELSE LET k == CHOOSE x \in keys : TRUE
         IN  <<k>> \o KeySeq(keys \ {k})

\* JSON text of a dict of strings, as its sequence of tokens:
\* { "k" : "v" , "k" : "v" }
RECURSIVE DumpItems(_, _)
DumpItems(d, ks) ==
    IF ks = << >> THEN << >>
    ELSE <<Tok("str", Head(ks)), Tok(":", ""), Tok("str", d[Head(ks)])>>
         \o (IF Len(ks) > 1 THEN <<Tok(",", "")>> ELSE << >>)
         \o DumpItems(d, Tail(ks))

Dumps(d) == <<Tok("{", "")>> \o DumpItems(d, KeySeq(DOMAIN d)) \o <<Tok("}", "")>>

\* What a client reads back from the JSON text: key i is token 4i-2, its
\* value token 4i.
Loads(toks) ==
    LET n == Len(toks) \div 4
    IN  [k \in {toks[4 * i - 2].v : i \in 1..n} |->
            toks[4 * (CHOOSE i \in 1..n : toks[4 * i - 2].v = k)].v]

StrRv(s) == [kind |-> "str", str |-> s, dict |-> << >>]
DictRv(d) == [kind |-> "dict", str |-> "", dict |-> d]

\* Flask turns a view's (body, status) into a response: a dict becomes a
\* JSON document, a string is sent as it is.
make_response(rv, status) ==
    IF rv.kind = "dict"
    THEN [status |-> status, mimetype |-> "application/json", data |-> Dumps(rv.dict)]
    ELSE [status |-> status, mimetype |-> "text/html", data |-> <<Tok("text", rv.str)>>]

NoResponse == [status |-> 0, mimetype |-> "", data |-> << >>]

----------------------------------------------------------------------------
(* the three views: each maps app.log to app.log after it and its return value *)

\* Mutant: the body lacks its last character.
home_typo(file) ==
    [log    |-> LoggerCall(file, "app", "INFO", "Homepage visited", << >>),
     rv     |-> StrRv("Welcome to Cool Tech Store"),
     status |-> 200]

\* Mutant: the visit is logged with app.logger.debug, below the threshold.
home_debug(file) ==
    [log    |-> LoggerCall(file, "app", "DEBUG", "Homepage visited", << >>),
     rv     |-> StrRv("Welcome to Cool Tech Store!"),
     status |-> 200]

\* Mutant: the imported random module is used; the greeting alternates with
\* the number of lines logged so far.
home_random(file) ==
    [log    |-> LoggerCall(file, "app", "INFO", "Homepage visited", << >>),
     rv     |-> StrRv(IF Len(file) % 2 = 0 THEN "Welcome to Cool Tech Store!"
                                           ELSE "Welcome back to Cool Tech Store!"),
     status |-> 200]

home(file) ==
    [log    |-> LoggerCall(file, "app", "INFO", "Homepage visited", << >>),
     rv     |-> StrRv("Welcome to Cool Tech Store!"),
     status |-> 200]

\* Mutant: the status is left out of the return value, so it is 200.
error_ok(file) ==
    [log    |-> LoggerCall(file, "app", "ERROR", "An error occurred!", << >>),
     rv     |-> StrRv("Something went wrong!"),
     status |-> 200]

\* Mutant: the error is logged with app.logger.info.
error_info(file) ==
    [log    |-> LoggerCall(file, "app", "INFO", "An error occurred!", << >>),
     rv     |-> StrRv("Something went wrong!"),
     status |-> 500]

error(file) ==
    [log    |-> LoggerCall(file, "app", "ERROR", "An error occurred!", << >>),
     rv     |-> StrRv("Something went wrong!"),
     status |-> 500]

\* Mutant: the check reports the errors logged so far.
health_degraded(file) ==
    IF \E k \in DOMAIN file : file[k].level = "ERROR"
    THEN [log |-> file, rv |-> DictRv([status |-> "unhealthy"]), status |-> 503]
    ELSE [log |-> file, rv |-> DictRv([status |-> "healthy"]), status |-> 200]

\* Mutant: the check logs its visit like the home page does.
health_logged(file) ==
    [log    |-> LoggerCall(file, "app", "INFO", "Health check", << >>),
     rv     |-> DictRv([status |-> "healthy"]),
     status |-> 200]

health(file) ==
    [log    |-> file,
     rv     |-> DictRv([status |-> "healthy"]),
     status |-> 200]

\* @app.route: the view registered for a path.
Route(path, file) ==
    CASE path = "/"       -> home(file)
      [] path = "/error"  -> error(file)
      [] path = "/health" -> health(file)

----------------------------------------------------------------------------
(* the server *)

\* The built-in server (app.run) logs every request it answers, at level
\* info on the logger "werkzeug", which propagates to the root handler.
\* A host that imports the application does not go through it.
AccessLog(file, server, path, status) ==
    IF server = "main"
    THEN LoggerCall(file, "werkzeug", "INFO", "\"%s\" %s %s", <<path, status>>)
    ELSE file

\* One GET request, from dispatch to the response sent.
Serve(path) ==
    /\ running # "stopped"
    /\ Len(trace) < MaxRequests
    /\ LET out == Route(path, log)
           r   == make_response(out.rv, out.status)
           lg  == AccessLog(out.log, running, path, r.status)
       IN  /\ log' = lg
           /\ resp' = r
           /\ trace' = Append(trace,
                  [path |-> path, response |-> r, server |-> running,
                   before |-> log, after |-> lg])
    /\ UNCHANGED <<running, starts>>

GetHome == Serve("/")
GetError == Serve("/error")
GetHealth == Serve("/health")

\* The module is loaded (lines 1-22); run as a script it then starts the
\* built-in server (lines 24-25), which announces itself in the log; the
\* level of the announcement depends on the server's version.
Start ==
    /\ running = "stopped"
    /\ starts < MaxStarts
    /\ starts' = starts + 1
    /\ \E mode \in {"main", "imported"} :
         /\ running' = mode
         /\ IF mode = "main"
            THEN \E lvl \in {"INFO", "WARNING"} :
                    log' = LoggerCall(basicConfig(log), "werkzeug", lvl,
                                      " * Running on %s", <<"0.0.0.0:5000">>)
            ELSE log' = basicConfig(log)
    /\ UNCHANGED <<resp, trace>>

\* The process is terminated from outside; app.log stays on disk.
Stop ==
    /\ running # "stopped"
    /\ running' = "stopped"
    /\ UNCHANGED <<log, resp, trace, starts>>

Init ==
    /\ log = << >>
    /\ running = "stopped"
    /\ resp = NoResponse
    /\ trace = << >>
    /\ starts = 0

Next == GetHome \/ GetError \/ GetHealth \/ Start \/ Stop

Spec == Init /\ [][Next]_vars

----------------------------------------------------------------------------
(* vocabulary of the properties *)

\* The lines a handled request added to app.log.
Added(t) == SubSeq(t.after, Len(t.before) + 1, Len(t.after))

IsPrefix(s, t) == Len(s) <= Len(t) /\ SubSeq(t, 1, Len(s)) = s

NumRequests(path) == Cardinality({i \in DOMAIN trace : trace[i].path = path})

NumLines(lg, level, msg) ==
    Cardinality({k \in DOMAIN lg : lg[k].level = level /\ lg[k].msg = msg})

NumLevel(lg, level) == Cardinality({k \in DOMAIN lg : lg[k].level = level})

AppLines(lg) == SelectSeq(lg, LAMBDA e : e.logger = "app")

LevelAndMessage(lg) == [k \in 1..Len(lg) |-> [level |-> lg[k].level, msg |-> lg[k].msg]]

\* A step that handles one request to the path.
Handles(path) ==
    /\ Len(trace') = Len(trace) + 1
    /\ trace'[Len(trace')].path = path

TextBody(r, s) == r.mimetype = "text/html" /\ r.data = <<Tok("text", s)>>

\* The response to a request for the path made to a process with an
\* empty log.
FreshResponse(path) ==
    LET out == Route(path, << >>) IN make_response(out.rv, out.status)

ErrorHandledBefore(i) == \E k \in 1..(i - 1) : trace[k].path = "/error"

----------------------------------------------------------------------------
\* C1: every GET / is answered with status 200 and the body exactly
\* "Welcome to Cool Tech Store!", whatever requests were handled before it.
C1_HomeResponse ==
    \A i \in DOMAIN trace :
        trace[i].path = "/" =>
            /\ trace[i].response.status = 200
            /\ TextBody(trace[i].response, "Welcome to Cool Tech Store!")

\* A GET / handled after a GET /error and a GET /health.
C1_Witness ==
    \E i, j, k \in DOMAIN trace :
        /\ i < k /\ j < k
        /\ trace[i].path = "/error" /\ trace[j].path = "/health"
        /\ trace[k].path = "/"
        /\ resp = trace[k].response

\* C2: every GET /error is answered with status 500 and the body exactly
\* "Something went wrong!", whatever requests were handled before it.
C2_ErrorResponse ==
    \A i \in DOMAIN trace :
        trace[i].path = "/error" =>
            /\ trace[i].response.status = 500
            /\ TextBody(trace[i].response, "Something went wrong!")

\* A GET /error handled after a GET / and an earlier GET /error.
C2_Witness ==
    \E i, j, k \in DOMAIN trace :
        /\ i < k /\ j < k /\ i # j
        /\ trace[i].path = "/" /\ trace[j].path = "/error"
        /\ trace[k].path = "/error"
        /\ resp = trace[k].response

\* C3: every GET /health is answered with status 200 and a body that reads
\* back as {"status": "healthy"}, in every reachable state, also after any
\* number of /error requests.
C3_HealthResponse ==
    \A i \in DOMAIN trace :
        trace[i].path = "/health" =>
            /\ trace[i].response.status = 200
            /\ trace[i].response.mimetype = "application/json"
            /\ Loads(trace[i].response.data) = [status |-> "healthy"]

\* A GET /health handled after three GET /error.
C3_Witness ==
    /\ Len(trace) = 4
    /\ \A i \in 1..3 : trace[i].path = "/error"
    /\ trace[4].path = "/health"
    /\ NumLevel(trace[4].before, "ERROR") = 3

C5_Original ==
    /\ NumLevel(log, "ERROR") = NumRequests("/error")
    /\ NumLevel(log, "ERROR") =
           Cardinality({i \in DOMAIN trace : trace[i].response.status = 500})
    /\ \A i \in DOMAIN trace :
            trace[i].path = "/error" =>
                /\ NumLines(Added(trace[i]), "ERROR", "An error occurred!") = 1
                /\ Len(Added(trace[i])) >= 1
                /\ NumLevel(Added(trace[i]), "INFO") = 0

\* C5 as amended: as stated, except that the info lines a GET /error adds
\* are none from the application and, under the built-in server, the one
\* access line the server writes for the request.
C5_ErrorLogged ==
    /\ NumLevel(log, "ERROR") = NumRequests("/error")
    /\ NumLevel(log, "ERROR") =
           Cardinality({i \in DOMAIN trace : trace[i].response.status = 500})
    /\ \A i \in DOMAIN trace :
            trace[i].path = "/error" =>
                /\ NumLines(Added(trace[i]), "ERROR", "An error occurred!") = 1
                /\ NumLevel(Added(trace[i]), "ERROR") = 1
                /\ NumLevel(AppLines(Added(trace[i])), "INFO") = 0
                /\ NumLevel(Added(trace[i]), "INFO") =
                       (IF trace[i].server = "main" THEN 1 ELSE 0)

\* Two GET /error handled, one under each kind of server, and a GET /.
C5_Witness ==
    /\ \E i, j \in DOMAIN trace :
            /\ trace[i].path = "/error" /\ trace[j].path = "/error"
            /\ trace[i].server = "main" /\ trace[j].server = "imported"
    /\ NumRequests("/") >= 1
    /\ NumLevel(log, "ERROR") = 2

\* C6 as stated: handling a GET /health leaves the log unchanged and
\* modifies no other state.
C6_Original ==
    [][Handles("/health") => log' = log /\ UNCHANGED <<running, starts>>]_vars

\* C6 as amended: handling a GET /health adds no line of the application
\* to the log, the only line added being the built-in server's access line
\* for the request (none under another host), and modifies no other state.
C6_HealthFrame ==
    [][Handles("/health") =>
          /\ IsPrefix(log, log')
          /\ AppLines(log') = AppLines(log)
          /\ log' = (IF running = "main"
                     THEN Append(log, LogRecord("werkzeug", "INFO", "\"%s\" %s %s",
                                                <<"/health", 200>>))
                     ELSE log)
          /\ UNCHANGED <<running, starts>>]_vars

\* A GET /health handled under each kind of server, the log not empty.
C6_Witness ==
    \E i, j \in DOMAIN trace :
        /\ trace[i].path = "/health" /\ trace[j].path = "/health"
        /\ trace[i].server = "main" /\ trace[j].server = "imported"
        /\ trace[j].before # << >>
        /\ trace[j].after = trace[j].before

\* The response of a request is the one every earlier request to the same
\* path received.
SameAsEarlier ==
    \A i \in DOMAIN trace :
        trace[i].path = trace'[Len(trace')].path =>
            trace[i].response = trace'[Len(trace')].response

\* C7: repeated identical requests to any of the three routes yield
\* identical responses and status codes, however often repeated, and a call
\* changes no state of the server: its only effect is the lines it appends
\* to the log, which no response depends on.
C7_Deterministic ==
    [][\A p \in Paths :
          Handles(p) =>
              /\ SameAsEarlier
              /\ resp' = trace'[Len(trace')].response
              /\ IsPrefix(log, log')
              /\ UNCHANGED <<running, starts>>]_vars

\* "/" requested three times, the log growing in between, and another
\* route requested twice.
C7_Witness ==
    /\ Len(trace) >= 4
    /\ NumRequests("/") >= 2
    /\ \E p \in Paths \ {"/"} : NumRequests(p) >= 2
    /\ \E i, j \in DOMAIN trace :
            /\ trace[i].path = "/" /\ trace[j].path = "/"
            /\ Len(trace[i].before) % 2 # Len(trace[j].before) % 2

\* The log the claim C8 describes: the entries of the handled "/" and
\* "/error" requests, in the order handled.
RECURSIVE ClaimedLog(_)
ClaimedLog(tr) ==
    IF tr = << >> THEN << >>
    ELSE ClaimedLog(SubSeq(tr, 1, Len(tr) - 1)) \o
         (CASE tr[Len(tr)].path = "/" ->
                   <<[level |-> "INFO", msg |-> "Homepage visited"]>>
            [] tr[Len(tr)].path = "/error" ->
                   <<[level |-> "ERROR", msg |-> "An error occurred!"]>>
            [] OTHER -> << >>)

\* C8 as stated: no request and no restart removes, rewrites or reorders a
\* line of the log, and the log is exactly the sequence of entries of the
\* handled "/" and "/error" requests in the order handled.
C8_Original ==
    [][IsPrefix(log, log') /\ LevelAndMessage(log') = ClaimedLog(trace')]_vars

\* C8 as amended: no request and no restart removes, rewrites or reorders
\* a line of the log, and the lines of the application in the log are
\* exactly the entries of the handled "/" and "/error" requests in the order
\* handled, each of level info or error; every other line is written by
\* the built-in server.
C8_AppendOnly ==
    [][/\ IsPrefix(log, log')
       /\ LevelAndMessage(AppLines(log')) = ClaimedLog(trace')
       /\ \A k \in DOMAIN log' : log'[k].logger \in {"app", "werkzeug"}]_vars

\* The process was restarted with lines in the log, and requests were
\* logged before and after the restart.
C8_Witness ==
    /\ starts = 2
    /\ running # "stopped"
    /\ \E i, j \in DOMAIN trace :
            /\ i < j
            /\ trace[i].server # trace[j].server
            /\ trace[i].path = "/" /\ trace[j].path = "/error"
    /\ Len(AppLines(log)) >= 2

\* C9: handling a GET /error puts the server in no error state and carries
\* no state to later requests: the listener keeps serving, and every request
\* handled after a GET /error receives the response it receives with no
\* GET /error made.
C9_ErrorNoFailure ==
    [][\A p \in Paths :
          (Handles(p) /\ (p = "/error" \/ ErrorHandledBefore(Len(trace'))))
          => /\ running' = running
             /\ running' # "stopped"
             /\ resp' = FreshResponse(p)
             /\ \A i \in DOMAIN trace :
                    (trace[i].path = p /\ ~ErrorHandledBefore(i))
                    => trace[i].response = resp']_vars

\* A GET /error, then one request to each route.
C9_Witness ==
    /\ Len(trace) = 4
    /\ trace[1].path = "/error"
    /\ {trace[i].path : i \in 2..4} = Paths
    /\ running # "stopped"
====
